---------------------------- MODULE Spec2Model ----------------------------
(***************************************************************************)
(* A model of the elliot actor library: the mailbox (tokio unbounded mpsc  *)
(* channel) behind ActorRef, the dispatch loop `receive`, the outcome      *)
(* normalization `IntoResult`, and the ping/pong programs of the tests and *)
(* the crate documentation.                                                *)
(*                                                                         *)
(* Three state machines share the operators below:                         *)
(*   Spec      one actor with an arbitrary handler and arbitrary callers   *)
(*   NormSpec  into_result applied to every handler return shape           *)
(*   PPSpec    the ping_pong program (pinger, ponger, main task)           *)
(***************************************************************************)
EXTENDS Naturals, Sequences, FiniteSets

\* ------------------------------------------------------------------ bounds
\* Number of messages callers and the handler may create in Spec.
MaxMsgs == 3
\* Number of ActorRef clones callers may hold at once in Spec.
MaxHandles == 2
\* Nesting depth of Option / Result wrappers in a handler's return value.
MaxDepth == 2
\* Largest initial count of the ping/pong exchange.
MaxCount == 3

\* ------------------------------------------------------- outcome reduction
\* enum Behaviors
Behaviors == {"Empty", "Ignore", "Same", "Unhandled", "Stopped"}

\* Message types: "T" is the message type of the actor of Spec, "U" the
\* message type of some peer; "Ping"/"Pong" are those of the ping/pong
\* programs.
MsgTypes == {"T", "U"}

\* Values a handler can return are records
\*   [tag, d, err, inner]
\* tag "Behaviors": the directive d;  "Unit": ();  "None" / "Some": Option<O>;
\* "Ok" / "Err": Result<O, E>.  inner is <<>> or <<v>>, err is <<>> or <<e>>.
Leaf(tag, d) == [tag |-> tag, d |-> d, err |-> <<>>, inner |-> <<>>]

Wrap(tag, v) == [tag |-> tag, d |-> "-", err |-> <<>>, inner |-> <<v>>]

Fail(e) == [tag |-> "Err", d |-> "-", err |-> <<e>>, inner |-> <<>>]

\* struct ActorRefGone<T>(pub T): a std::error::Error whose type is
\* determined by the message type `of`; msg is the rejected message.
ActorRefGone(of, msg) == [ty |-> "ActorRefGone", of |-> of, msg |-> msg]

\* Any other std::error::Error a handler may fail with.
OtherErr == [ty |-> "Other", of |-> "-", msg |-> 0]

\* The failures a handler of Spec may return while handling message m.
Failures(m) == {ActorRefGone(t, m) : t \in MsgTypes} \cup {OtherErr}

RECURSIVE RawValues(_, _)
RawValues(depth, m) ==
    LET leaves == {Leaf("Behaviors", d) : d \in Behaviors} \cup {Leaf("Unit", "-")}
    IN  IF depth = 0
        THEN leaves
        ELSE LET sub == RawValues(depth - 1, m)
             IN  leaves
                 \cup {Leaf("None", "-")}
                 \cup {Wrap("Some", v) : v \in sub}
                 \cup {Wrap("Ok", v) : v \in sub}
                 \cup {Fail(e) : e \in Failures(m)}

\* Result<Behaviors, Error<T>>
OkResult(d) == [ok |-> TRUE, d |-> d, kind |-> "-", payload |-> <<>>]

ErrResult(kind, payload) == [ok |-> FALSE, d |-> "-", kind |-> kind, payload |-> payload]

NoResult == [ok |-> FALSE, d |-> "-", kind |-> "-", payload |-> <<>>]

\* Box<dyn Error>::downcast::<ActorRefGone<T>>(): succeeds exactly when the
\* boxed error's concrete type is ActorRefGone<T>.
DowncastAny(e, T) == e.ty = "ActorRefGone"

Downcast(e, T) == e.ty = "ActorRefGone" /\ e.of = T

\* impl IntoResult<T> for Result<O, E>, failure arm.
ClassifyAllUnhandled(e, T) ==
    IF e.ty = "ActorRefGone"
    THEN ErrResult("Unhandled", <<e>>)
    ELSE ErrResult("Crashed", <<e>>)

Classify(e, T) ==
    IF Downcast(e, T)
    THEN ErrResult("Unhandled", <<e>>)
    ELSE ErrResult("Crashed", <<e>>)

\* IntoResult::into_result for Behaviors, (), Result<O, E> and Option<O>;
\* T is the message type of the actor the handler belongs to.
RECURSIVE into_result(_, _)
into_resultUnitUnhandled(v, T) ==
    CASE v.tag = "Behaviors" -> OkResult(v.d)
      [] v.tag = "Unit" -> OkResult("Unhandled")
      [] v.tag = "Ok" -> into_result(v.inner[1], T)
      [] v.tag = "Err" -> Classify(v.err[1], T)
      [] v.tag = "Some" -> into_result(v.inner[1], T)
      [] v.tag = "None" -> OkResult("Stopped")

into_resultShallow(v, T) ==
    CASE v.tag = "Behaviors" -> OkResult(v.d)
      [] v.tag = "Unit" -> OkResult("Same")
      [] v.tag = "Ok" -> OkResult("Same")
      [] v.tag = "Err" -> Classify(v.err[1], T)
      [] v.tag = "Some" -> OkResult("Same")
      [] v.tag = "None" -> OkResult("Stopped")

into_result(v, T) ==
    CASE v.tag = "Behaviors" -> OkResult(v.d)
      [] v.tag = "Unit" -> OkResult("Same")
      [] v.tag = "Ok" -> into_result(v.inner[1], T)
      [] v.tag = "Err" -> Classify(v.err[1], T)
      [] v.tag = "Some" -> into_result(v.inner[1], T)
      [] v.tag = "None" -> OkResult("Stopped")

\* ----------------------------------------------------------------- mailbox
\* mpsc::UnboundedSender::send: appends unless the receiver is gone, in which
\* case the message comes back in the SendError.
sendDropping(open, q, msg) ==
    [ok |-> TRUE, queue |-> IF open THEN Append(q, msg) ELSE q, back |-> <<>>]

send(open, q, msg) ==
    IF open
    THEN [ok |-> TRUE, queue |-> Append(q, msg), back |-> <<>>]
    ELSE [ok |-> FALSE, queue |-> q, back |-> <<msg>>]

\* ActorRef::tell: Err(ActorRefGone(e.0)) on a send error, Ok(()) otherwise.
tell(open, q, msg) ==
    LET r == send(open, q, msg)
    IN  [ok |-> r.ok, queue |-> r.queue,
         gone |-> IF r.ok THEN <<>> ELSE <<r.back[1]>>]

\* ActorRef::is_alive
is_alive(open) == (~open) = FALSE

\* mpsc::UnboundedReceiver::try_recv / recv as used by receive_next.
\* parked = FALSE: the try_recv of line 104; an empty mailbox with live
\* senders is TryRecvError::Empty (status "empty") and leads to rx.recv().
\* parked = TRUE: the suspended rx.recv().await; it completes with a message,
\* or with None once every sender is gone, and stays pending otherwise.
receive_nextLifo(q, senders, parked) ==
    IF q # <<>>
    THEN [status |-> "some", msg |-> <<q[Len(q)]>>, rest |-> SubSeq(q, 1, Len(q) - 1)]
    ELSE IF senders = 0
         THEN [status |-> "none", msg |-> <<>>, rest |-> q]
         ELSE [status |-> IF parked THEN "pending" ELSE "empty", msg |-> <<>>, rest |-> q]

receive_nextPeek(q, senders, parked) ==
    IF q # <<>>
    THEN [status |-> "some", msg |-> <<Head(q)>>, rest |-> q]
    ELSE IF senders = 0
         THEN [status |-> "none", msg |-> <<>>, rest |-> q]
         ELSE [status |-> IF parked THEN "pending" ELSE "empty", msg |-> <<>>, rest |-> q]

receive_next(q, senders, parked) ==
    IF q # <<>>
    THEN [status |-> "some", msg |-> <<Head(q)>>, rest |-> Tail(q)]
    ELSE IF senders = 0
         THEN [status |-> "none", msg |-> <<>>, rest |-> q]
         ELSE [status |-> IF parked THEN "pending" ELSE "empty", msg |-> <<>>, rest |-> q]

\* mpsc::UnboundedSender::closed: resolves once the receiver has been dropped.
closedAlways(open) == TRUE

closed(open) == ~open

\* ------------------------------------------------------- the dispatch loop
\* What `receive` does with the normalized result of one invocation
\* (the match of lines 85-99): the loop position that follows, whether the
\* function returns (dropping rx and the context), and the value returned.
transitionStoppedDrains(res) ==
    IF res.ok
    THEN CASE res.d \in {"Empty", "Ignore", "Stopped"} ->
                [pc |-> "drain_try", exit |-> FALSE, rx |-> TRUE, outcome |-> NoResult]
           [] res.d \in {"Same", "Unhandled"} ->
                [pc |-> "try_recv", exit |-> FALSE, rx |-> TRUE, outcome |-> NoResult]
    ELSE [pc |-> "exited", exit |-> TRUE, rx |-> FALSE, outcome |-> res]

transitionDrainCloses(res) ==
    IF res.ok
    THEN CASE res.d \in {"Same", "Unhandled"} ->
                [pc |-> "try_recv", exit |-> FALSE, rx |-> TRUE, outcome |-> NoResult]
           [] res.d \in {"Empty", "Ignore"} ->
                [pc |-> "exited", exit |-> TRUE, rx |-> FALSE,
                 outcome |-> ErrResult("NoActorRef", <<>>)]
           [] res.d = "Stopped" ->
                [pc |-> "exited", exit |-> TRUE, rx |-> FALSE,
                 outcome |-> ErrResult("Stopped", <<>>)]
    ELSE [pc |-> "exited", exit |-> TRUE, rx |-> FALSE, outcome |-> res]

transitionLeaksRx(res) ==
    IF res.ok
    THEN CASE res.d \in {"Empty", "Ignore"} ->
                [pc |-> "drain_try", exit |-> FALSE, rx |-> TRUE, outcome |-> NoResult]
           [] res.d \in {"Same", "Unhandled"} ->
                [pc |-> "try_recv", exit |-> FALSE, rx |-> TRUE, outcome |-> NoResult]
           [] res.d = "Stopped" ->
                [pc |-> "exited", exit |-> TRUE, rx |-> FALSE,
                 outcome |-> ErrResult("Stopped", <<>>)]
    ELSE [pc |-> "exited", exit |-> TRUE, rx |-> TRUE, outcome |-> res]

transitionRetries(res) ==
    IF res.ok
    THEN CASE res.d \in {"Empty", "Ignore"} ->
                [pc |-> "drain_try", exit |-> FALSE, rx |-> TRUE, outcome |-> NoResult]
           [] res.d \in {"Same", "Unhandled"} ->
                [pc |-> "try_recv", exit |-> FALSE, rx |-> TRUE, outcome |-> NoResult]
           [] res.d = "Stopped" ->
                [pc |-> "exited", exit |-> TRUE, rx |-> FALSE,
                 outcome |-> ErrResult("Stopped", <<>>)]
    ELSE [pc |-> "try_recv", exit |-> FALSE, rx |-> TRUE, outcome |-> NoResult]

transitionUnhandledStops(res) ==
    IF res.ok
    THEN CASE res.d \in {"Empty", "Ignore"} ->
                [pc |-> "drain_try", exit |-> FALSE, rx |-> TRUE, outcome |-> NoResult]
           [] res.d = "Same" ->
                [pc |-> "try_recv", exit |-> FALSE, rx |-> TRUE, outcome |-> NoResult]
           [] res.d = "Unhandled" ->
                [pc |-> "exited", exit |-> TRUE, rx |-> FALSE,
                 outcome |-> ErrResult("Unhandled", <<>>)]
           [] res.d = "Stopped" ->
                [pc |-> "exited", exit |-> TRUE, rx |-> FALSE,
                 outcome |-> ErrResult("Stopped", <<>>)]
    ELSE [pc |-> "exited", exit |-> TRUE, rx |-> FALSE, outcome |-> res]

transitionIgnoreAsSame(res) ==
    IF res.ok
    THEN CASE res.d = "Empty" ->
                [pc |-> "drain_try", exit |-> FALSE, rx |-> TRUE, outcome |-> NoResult]
           [] res.d \in {"Same", "Unhandled", "Ignore"} ->
                [pc |-> "try_recv", exit |-> FALSE, rx |-> TRUE, outcome |-> NoResult]
           [] res.d = "Stopped" ->
                [pc |-> "exited", exit |-> TRUE, rx |-> FALSE,
                 outcome |-> ErrResult("Stopped", <<>>)]
    ELSE [pc |-> "exited", exit |-> TRUE, rx |-> FALSE, outcome |-> res]

transitionStoppedAsNoActorRef(res) ==
    IF res.ok
    THEN CASE res.d \in {"Empty", "Ignore"} ->
                [pc |-> "drain_try", exit |-> FALSE, rx |-> TRUE, outcome |-> NoResult]
           [] res.d \in {"Same", "Unhandled"} ->
                [pc |-> "try_recv", exit |-> FALSE, rx |-> TRUE, outcome |-> NoResult]
           [] res.d = "Stopped" ->
                [pc |-> "exited", exit |-> TRUE, rx |-> FALSE,
                 outcome |-> ErrResult("NoActorRef", <<>>)]
    ELSE [pc |-> "exited", exit |-> TRUE, rx |-> FALSE, outcome |-> res]

transition(res) ==
    IF res.ok
    THEN CASE res.d \in {"Empty", "Ignore"} ->
                [pc |-> "drain_try", exit |-> FALSE, rx |-> TRUE, outcome |-> NoResult]
           [] res.d \in {"Same", "Unhandled"} ->
                [pc |-> "try_recv", exit |-> FALSE, rx |-> TRUE, outcome |-> NoResult]
           [] res.d = "Stopped" ->
                [pc |-> "exited", exit |-> TRUE, rx |-> FALSE,
                 outcome |-> ErrResult("Stopped", <<>>)]
    ELSE [pc |-> "exited", exit |-> TRUE, rx |-> FALSE, outcome |-> res]

\* One turn of the loop of empty_behavor: the message received is dropped
\* (drop(msg)), None makes the function return Err(NoActorRef).
empty_behavor(q, senders, parked) ==
    LET r == receive_next(q, senders, parked)
    IN  CASE r.status = "some" ->
               [pc |-> "drain_try", dropped |-> r.msg, queue |-> r.rest, exit |-> FALSE]
          [] r.status = "none" ->
               [pc |-> "exited", dropped |-> <<>>, queue |-> q, exit |-> TRUE]
          [] r.status = "empty" ->
               [pc |-> "drain_recv", dropped |-> <<>>, queue |-> q, exit |-> FALSE]
          [] r.status = "pending" ->
               [pc |-> "pending", dropped |-> <<>>, queue |-> q, exit |-> FALSE]

\* One turn of the loop of ignore_behavor.
ignore_behavor(q, senders, parked) ==
    LET r == receive_next(q, senders, parked)
    IN  CASE r.status = "some" ->
               [pc |-> "drain_try", dropped |-> r.msg, queue |-> r.rest, exit |-> FALSE]
          [] r.status = "none" ->
               [pc |-> "exited", dropped |-> <<>>, queue |-> q, exit |-> TRUE]
          [] r.status = "empty" ->
               [pc |-> "drain_recv", dropped |-> <<>>, queue |-> q, exit |-> FALSE]
          [] r.status = "pending" ->
               [pc |-> "pending", dropped |-> <<>>, queue |-> q, exit |-> FALSE]

\* The loop awaits the handler's future before it fetches again (line 84).
AfterInvokeSpawned == "try_recv"

AfterInvoke == "handling"

\* ============================================================ one actor
VARIABLES
    queue,       \* the mailbox: messages sent and not yet received
    rxOpen,      \* the UnboundedReceiver has not been dropped
    handles,     \* the ActorRef clones held by callers
    ctx,         \* the ActorContext (and its ActorRef `this`) is alive
    pc,          \* position of the task running `receive`
    cur,         \* the message the behavior is handling, <<>> if none
    thisHeld,    \* ActorRef clones extracted for the invocation in flight
    inflight,    \* invocations of the behavior started and not completed
    enq,         \* history: messages enqueued, in mailbox order
    handled,     \* history: messages passed to the behavior, in order
    lastResult,  \* normalized result of the last completed invocation
    outcome,     \* the value `receive` returned, NoResult while it runs
    rejected,    \* history: every failed tell call and what it returned
    selfSent,    \* history: the messages the handler sent to its own actor
    nextMsg,     \* the next fresh message
    wait,        \* per handle: state of a wait_for_stop call on it
    alive,       \* result of the last is_alive call, <<>> if none
    lost,        \* history: what was queued when the receiver was dropped
    drained,     \* history: messages the drain loop received and dropped
    state,       \* the State<S> of the invocation in flight, <<>> if none
    lastState    \* history: the State<S> the last invocation left behind

avars == <<queue, rxOpen, handles, ctx, pc, cur, thisHeld, inflight, enq,
           handled, lastResult, outcome, rejected, selfSent, nextMsg, wait,
           alive, lost, drained, state, lastState>>

Handles == 1..MaxHandles

\* Number of live UnboundedSender clones of the actor's channel.
txCountWeak == Cardinality(handles) + thisHeld

txCount == Cardinality(handles) + (IF ctx THEN 1 ELSE 0) + thisHeld

\* State right after ActorSystem::spawn / actor_of returned `this`.
AInit ==
    /\ queue = <<>>
    /\ rxOpen = TRUE
    /\ handles = {1}
    /\ ctx = TRUE
    /\ pc = "try_recv"
    /\ cur = <<>>
    /\ thisHeld = 0
    /\ inflight = 0
    /\ enq = <<>>
    /\ handled = <<>>
    /\ lastResult = NoResult
    /\ outcome = NoResult
    /\ rejected = <<>>
    /\ selfSent = {}
    /\ nextMsg = 1
    /\ wait = [h \in Handles |-> "idle"]
    /\ alive = <<>>
    /\ lost = <<>>
    /\ drained = <<>>
    /\ state = <<>>
    /\ lastState = <<>>

\* S::default() of the state type S, a counter.
Default == 0

\* impl FromContext<T> for State<S>: the container a behavior with a State
\* parameter is invoked with.
StateFromContextRetained == IF lastState = <<>> THEN Default ELSE lastState[1]

StateFromContext == Default

\* The behavior counts its invocations in its State<S>: through DerefMut each
\* invocation leaves the value it was given, incremented.
Written(s) == s + 1

\* ------------------------------------------------------------ pure reduction
VARIABLES
    nraw,        \* a handler return value
    nty,         \* the message type of the actor it is returned to
    nres         \* into_result of it, NoResult before it is applied

nvars == <<nraw, nty, nres>>

NIdle == nraw = Leaf("Unit", "-") /\ nty = "T" /\ nres = NoResult

\* --------------------------------------------------------------- ping/pong
VARIABLES
    pinger,      \* the actor spawned with `ping` (messages of type Pong)
    ponger,      \* the actor spawned with `pong` (messages of type Ping)
    main,        \* the task running ping_pong
    stats        \* history: counts of the exchange

pvars == <<pinger, ponger, main, stats>>

\* A mailbox with its dispatch loop, as actor_of leaves it.
Spawned ==
    [queue |-> <<>>, rxOpen |-> TRUE, pc |-> "try_recv", cur |-> <<>>,
     outcome |-> NoResult]

PIdle ==
    /\ pinger = Spawned
    /\ ponger = Spawned
    /\ main = [pc |-> "idle", messages |-> 0, probe |-> FALSE]
    /\ stats = [pings |-> 0, pongs |-> 0, handled |-> 0, failed |-> 0]

vars == <<avars, nvars, pvars>>

\* ------------------------------------------------------ actions of one actor
\* The value `receive` returns and the drops that its return performs: the
\* receiver (which discards what is still queued) and the context.
Return(t, res) ==
    /\ lastResult' = res
    /\ pc' = t.pc
    /\ rxOpen' = (rxOpen /\ t.rx)
    /\ queue' = IF rxOpen /\ t.rx THEN queue ELSE <<>>
    /\ ctx' = (ctx /\ ~t.exit)
    /\ outcome' = IF t.exit THEN t.outcome ELSE outcome
    /\ lost' = IF rxOpen /\ ~t.rx THEN queue ELSE lost

\* receive, lines 80-84: fetch the next message and invoke the behavior on
\* it (impl_behavior!::receive extracts the parameters: `ex` is the number
\* of ActorRef clones the handler's parameters take from the context).
Receive ==
    /\ pc \in {"try_recv", "recv"}
    /\ LET r == receive_next(queue, txCount, pc = "recv")
       IN  CASE r.status = "some" ->
                  /\ \E ex \in {0, 1} : thisHeld' = ex
                  /\ queue' = r.rest
                  /\ cur' = r.msg
                  /\ handled' = Append(handled, r.msg[1])
                  /\ inflight' = inflight + 1
                  /\ pc' = AfterInvoke
                  /\ state' = <<StateFromContext>>
                  /\ UNCHANGED <<rxOpen, ctx, lastResult, outcome, lost>>
             [] r.status = "none" ->
                  /\ Return([pc |-> "exited", exit |-> TRUE, rx |-> FALSE,
                             outcome |-> ErrResult("NoActorRef", <<>>)], lastResult)
                  /\ UNCHANGED <<cur, thisHeld, handled, inflight, state>>
             [] r.status = "empty" ->
                  /\ pc' = "recv"
                  /\ UNCHANGED <<queue, rxOpen, ctx, cur, thisHeld, handled,
                                 inflight, lastResult, outcome, lost, state>>
             [] r.status = "pending" -> FALSE
    /\ UNCHANGED <<handles, enq, rejected, selfSent, nextMsg, wait, alive, drained,
                   lastState>>
    /\ UNCHANGED <<nvars, pvars>>

\* A handler that took its own ActorRef sends a message to its own actor.
HandlerTell ==
    /\ inflight > 0
    /\ thisHeld > 0
    /\ nextMsg <= MaxMsgs
    /\ LET r == tell(rxOpen, queue, nextMsg)
       IN  /\ queue' = r.queue
           /\ enq' = IF r.ok THEN Append(enq, nextMsg) ELSE enq
           /\ rejected' = IF r.ok THEN rejected
                          ELSE Append(rejected, [by |-> 0, msg |-> nextMsg,
                                                 gone |-> r.gone])
           /\ selfSent' = IF r.ok THEN selfSent \cup {nextMsg} ELSE selfSent
    /\ nextMsg' = nextMsg + 1
    /\ UNCHANGED <<rxOpen, handles, ctx, pc, cur, thisHeld, inflight, handled,
                   lastResult, outcome, wait, alive>>
    /\ UNCHANGED <<lost, drained, state, lastState>>
    /\ UNCHANGED <<nvars, pvars>>

\* receive, lines 84-99: the handler's future completes with `raw`; MapErr
\* normalizes it and the loop applies the directive or returns the failure.
HandlerComplete ==
    /\ inflight > 0
    /\ \E res \in {into_result(raw, "T") : raw \in RawValues(MaxDepth, cur[1])} :
          Return(transition(res), res)
    /\ inflight' = inflight - 1
    /\ thisHeld' = 0
    /\ cur' = <<>>
    /\ lastState' = <<Written(state[1])>>
    /\ state' = <<>>
    /\ UNCHANGED <<handles, enq, handled, rejected, selfSent, nextMsg, wait, alive,
                   drained>>
    /\ UNCHANGED <<nvars, pvars>>

\* receive, lines 87-88: the loop of empty_behavor after Empty, that of
\* ignore_behavor after Ignore; its Err(NoActorRef) is what receive returns.
Drain ==
    /\ pc \in {"drain_try", "drain_recv"}
    /\ LET r == IF lastResult = OkResult("Empty")
                THEN empty_behavor(queue, txCount, pc = "drain_recv")
                ELSE ignore_behavor(queue, txCount, pc = "drain_recv")
       IN  /\ r.pc # "pending"
           /\ drained' = drained \o r.dropped
           /\ IF r.exit
              THEN Return([pc |-> "exited", exit |-> TRUE, rx |-> FALSE,
                           outcome |-> ErrResult("NoActorRef", <<>>)], lastResult)
              ELSE /\ queue' = r.queue
                   /\ pc' = r.pc
                   /\ UNCHANGED <<rxOpen, ctx, lastResult, outcome, lost>>
    /\ UNCHANGED <<handles, cur, thisHeld, inflight, enq, handled, rejected, selfSent,
                   nextMsg, wait, alive, state, lastState>>
    /\ UNCHANGED <<nvars, pvars>>

\* ActorRef::tell by a caller holding handle h.
Tell(h) ==
    /\ h \in handles
    /\ nextMsg <= MaxMsgs
    /\ LET r == tell(rxOpen, queue, nextMsg)
       IN  /\ queue' = r.queue
           /\ enq' = IF r.ok THEN Append(enq, nextMsg) ELSE enq
           /\ rejected' = IF r.ok THEN rejected
                          ELSE Append(rejected, [by |-> h, msg |-> nextMsg,
                                                 gone |-> r.gone])
    /\ nextMsg' = nextMsg + 1
    /\ UNCHANGED <<rxOpen, handles, ctx, pc, cur, thisHeld, inflight, handled, selfSent,
                   lastResult, outcome, wait, alive>>
    /\ UNCHANGED <<lost, drained, state, lastState>>
    /\ UNCHANGED <<nvars, pvars>>

\* impl Clone for ActorRef: a caller clones handle h.
Clone(h) ==
    /\ h \in handles
    /\ Handles \ handles # {}
    /\ LET new == CHOOSE x \in Handles \ handles :
                      \A y \in Handles \ handles : x <= y
       IN  handles' = handles \cup {new}
    /\ UNCHANGED <<queue, rxOpen, ctx, pc, cur, thisHeld, inflight, enq, handled,
                   lastResult, outcome, rejected, selfSent, nextMsg, wait, alive>>
    /\ UNCHANGED <<lost, drained, state, lastState>>
    /\ UNCHANGED <<nvars, pvars>>

\* A caller drops handle h (a pending wait_for_stop borrows it).
Drop(h) ==
    /\ h \in handles
    /\ wait[h] # "pending"
    /\ handles' = handles \ {h}
    /\ wait' = [wait EXCEPT ![h] = "idle"]
    /\ UNCHANGED <<queue, rxOpen, ctx, pc, cur, thisHeld, inflight, enq, handled,
                   lastResult, outcome, rejected, selfSent, nextMsg, alive>>
    /\ UNCHANGED <<lost, drained, state, lastState>>
    /\ UNCHANGED <<nvars, pvars>>

\* ActorRef::is_alive on handle h.
IsAlive(h) ==
    /\ h \in handles
    /\ alive' = <<is_alive(rxOpen)>>
    /\ UNCHANGED <<queue, rxOpen, handles, ctx, pc, cur, thisHeld, inflight, enq,
                   handled, lastResult, outcome, rejected, selfSent, nextMsg, wait>>
    /\ UNCHANGED <<lost, drained, state, lastState>>
    /\ UNCHANGED <<nvars, pvars>>

\* ActorRef::wait_for_stop on handle h: first poll of tx.closed().
WaitForStop(h) ==
    /\ h \in handles
    /\ wait[h] = "idle"
    /\ wait' = [wait EXCEPT ![h] = IF closed(rxOpen) THEN "resolved" ELSE "pending"]
    /\ UNCHANGED <<queue, rxOpen, handles, ctx, pc, cur, thisHeld, inflight, enq,
                   handled, lastResult, outcome, rejected, selfSent, nextMsg, alive>>
    /\ UNCHANGED <<lost, drained, state, lastState>>
    /\ UNCHANGED <<nvars, pvars>>

\* The pending tx.closed() of handle h is woken by the receiver's drop.
WaitWake(h) ==
    /\ wait[h] = "pending"
    /\ closed(rxOpen)
    /\ wait' = [wait EXCEPT ![h] = "resolved"]
    /\ UNCHANGED <<queue, rxOpen, handles, ctx, pc, cur, thisHeld, inflight, enq,
                   handled, lastResult, outcome, rejected, selfSent, nextMsg, alive>>
    /\ UNCHANGED <<lost, drained, state, lastState>>
    /\ UNCHANGED <<nvars, pvars>>

Init == AInit /\ NIdle /\ PIdle

Next ==
    \/ Receive
    \/ HandlerTell
    \/ HandlerComplete
    \/ Drain
    \/ \E h \in Handles : Tell(h)
    \/ \E h \in Handles : Clone(h)
    \/ \E h \in Handles : Drop(h)
    \/ \E h \in Handles : IsAlive(h)
    \/ \E h \in Handles : WaitForStop(h)
    \/ \E h \in Handles : WaitWake(h)

Spec == Init /\ [][Next]_vars

\* --------------------------------------------------- the reduction, applied
NInit ==
    /\ AInit
    /\ PIdle
    /\ nraw \in RawValues(MaxDepth, 1)
    /\ nty \in MsgTypes
    /\ nres = NoResult

\* MapErr::poll, line 65: the ready value is replaced by its into_result.
Normalize ==
    /\ nres = NoResult
    /\ nres' = into_result(nraw, nty)
    /\ UNCHANGED <<nraw, nty>>
    /\ UNCHANGED <<avars, pvars>>

NNext == Normalize

NormSpec == NInit /\ [][NNext]_vars

\* ------------------------------------------------- the ping/pong programs
\* struct Ping { count, reply: ActorRef<Pong> } and
\* struct Pong { count, reply: ActorRef<Ping> }; reply names the actor.
Ping(count) == [ty |-> "Ping", count |-> count, reply |-> "pinger"]

Pong(count) == [ty |-> "Pong", count |-> count, reply |-> "ponger"]

\* usize::checked_sub
checked_subStrict(a, b) == IF a > b THEN <<a - b>> ELSE <<>>

checked_sub(a, b) == IF a >= b THEN <<a - b>> ELSE <<>>

\* Number of items of sequence q that are handles to actor `who`.
RECURSIVE Replies(_, _)
Replies(q, who) ==
    IF q = <<>> THEN 0
    ELSE (IF Head(q).reply = who THEN 1 ELSE 0) + Replies(Tail(q), who)

\* Live senders of the pinger's channel: its context, the handle in main,
\* the `this` of an invocation in flight, and the reply of every Ping.
PingerSenders ==
    (IF pinger.pc # "exited" THEN 1 ELSE 0)
    + (IF main.pc \in {"idle", "told", "waiting"} \/ (main.probe /\ main.pc = "resolved")
       THEN 1 ELSE 0)
    + (IF pinger.pc = "handling" THEN 1 ELSE 0)
    + Replies(ponger.queue, "pinger") + Replies(ponger.cur, "pinger")

\* Live senders of the ponger's channel: its context, the handle in main,
\* the `this` of an invocation in flight, and the reply of every Pong.
PongerSenders ==
    (IF ponger.pc # "exited" THEN 1 ELSE 0)
    + (IF main.pc = "idle" \/ (main.probe /\ main.pc \in {"told", "waiting", "resolved"})
       THEN 1 ELSE 0)
    + (IF ponger.pc = "handling" THEN 1 ELSE 0)
    + Replies(pinger.queue, "ponger") + Replies(pinger.cur, "ponger")

\* receive, lines 80-84, on an actor record.
Fetch(a, senders) ==
    LET r == receive_next(a.queue, senders, a.pc = "recv")
    IN  CASE r.status = "some" ->
               [a EXCEPT !.queue = r.rest, !.cur = r.msg, !.pc = AfterInvoke]
          [] r.status = "none" ->
               [a EXCEPT !.pc = "exited", !.rxOpen = FALSE, !.queue = <<>>,
                         !.outcome = ErrResult("NoActorRef", <<>>)]
          [] r.status = "empty" -> [a EXCEPT !.pc = "recv"]
          [] r.status = "pending" -> a

\* receive, lines 85-99, on an actor record.
Apply(a, res) ==
    LET t == transition(res)
    IN  [a EXCEPT !.pc = t.pc, !.cur = <<>>,
                  !.rxOpen = a.rxOpen /\ t.rx,
                  !.queue = IF a.rxOpen /\ t.rx THEN a.queue ELSE <<>>,
                  !.outcome = IF t.exit THEN t.outcome ELSE a.outcome]

\* ping_pong has spawned both actors; `messages` is the initial count.
\* probe: the caller is one that keeps clones of both handles and, once
\* the pinger has stopped, sends the ponger a Ping to be answered to it.
PInit ==
    /\ AInit
    /\ NIdle
    /\ pinger = Spawned
    /\ ponger = Spawned
    /\ main \in [pc : {"idle"}, messages : 0..MaxCount, probe : BOOLEAN]
    /\ stats = [pings |-> 0, pongs |-> 0, handled |-> 0, failed |-> 0]

\* pinger.tell(Pong { count: messages, reply: ponger })
MainTell ==
    /\ main.pc = "idle"
    /\ LET r == tell(pinger.rxOpen, pinger.queue, Pong(main.messages))
       IN  /\ pinger' = [pinger EXCEPT !.queue = r.queue]
           /\ stats' = [stats EXCEPT !.failed = IF r.ok THEN @ ELSE @ + 1]
    /\ main' = [main EXCEPT !.pc = "told"]
    /\ UNCHANGED ponger
    /\ UNCHANGED <<avars, nvars>>

\* pinger.wait_for_stop().await, first poll.
MainWait ==
    /\ main.pc = "told"
    /\ main' = [main EXCEPT !.pc = IF closed(pinger.rxOpen) THEN "resolved" ELSE "waiting"]
    /\ UNCHANGED <<pinger, ponger, stats>>
    /\ UNCHANGED <<avars, nvars>>

\* The pending wait_for_stop is woken by the drop of the pinger's receiver.
MainWake ==
    /\ main.pc = "waiting"
    /\ closed(pinger.rxOpen)
    /\ main' = [main EXCEPT !.pc = "resolved"]
    /\ UNCHANGED <<pinger, ponger, stats>>
    /\ UNCHANGED <<avars, nvars>>

\* The probing caller: ponger.tell(Ping { count: 0, reply: pinger }).
MainProbe ==
    /\ main.probe
    /\ main.pc = "resolved"
    /\ LET r == tell(ponger.rxOpen, ponger.queue, Ping(0))
       IN  ponger' = [ponger EXCEPT !.queue = r.queue]
    /\ main' = [main EXCEPT !.pc = "probed"]
    /\ UNCHANGED <<pinger, stats>>
    /\ UNCHANGED <<avars, nvars>>

PingerReceive ==
    /\ pinger.pc \in {"try_recv", "recv"}
    /\ pinger' = Fetch(pinger, PingerSenders)
    /\ pinger' # pinger
    /\ stats' = [stats EXCEPT !.handled = IF pinger'.pc = AfterInvoke THEN @ + 1 ELSE @]
    /\ UNCHANGED <<ponger, main>>
    /\ UNCHANGED <<avars, nvars>>

PongerReceive ==
    /\ ponger.pc \in {"try_recv", "recv"}
    /\ ponger' = Fetch(ponger, PongerSenders)
    /\ ponger' # ponger
    /\ UNCHANGED <<pinger, main, stats>>
    /\ UNCHANGED <<avars, nvars>>

\* async fn ping(this, pong) -> Option<Result<(), ActorRefGone<Ping>>>,
\* normalized for the pinger (message type Pong) and applied by its loop.
PingerHandle ==
    /\ pinger.pc = "handling"
    /\ LET pong == pinger.cur[1]
           count == checked_sub(pong.count, 1)
       IN  IF count = <<>>
           THEN /\ pinger' = Apply(pinger, into_result(Leaf("None", "-"), "Pong"))
                /\ UNCHANGED <<ponger, stats>>
           ELSE LET r == tell(ponger.rxOpen, ponger.queue, Ping(count[1]))
                    raw == Wrap("Some", IF r.ok THEN Wrap("Ok", Leaf("Unit", "-"))
                                        ELSE Fail(ActorRefGone("Ping", r.gone[1])))
                IN  /\ ponger' = [ponger EXCEPT !.queue = r.queue]
                    /\ pinger' = Apply(pinger, into_result(raw, "Pong"))
                    /\ stats' = [stats EXCEPT !.pings = IF r.ok THEN @ + 1 ELSE @,
                                              !.failed = IF r.ok THEN @ ELSE @ + 1]
    /\ UNCHANGED main
    /\ UNCHANGED <<avars, nvars>>

\* async fn pong(this, ping) -> Result<(), ActorRefGone<Pong>>, normalized
\* for the ponger (message type Ping) and applied by its loop.
PongerHandle ==
    /\ ponger.pc = "handling"
    /\ LET ping == ponger.cur[1]
           r == tell(pinger.rxOpen, pinger.queue, Pong(ping.count))
           raw == IF r.ok THEN Wrap("Ok", Leaf("Unit", "-"))
                  ELSE Fail(ActorRefGone("Pong", r.gone[1]))
       IN  /\ pinger' = [pinger EXCEPT !.queue = r.queue]
           /\ ponger' = Apply(ponger, into_result(raw, "Ping"))
           /\ stats' = [stats EXCEPT !.pongs = IF r.ok THEN @ + 1 ELSE @,
                                     !.failed = IF r.ok THEN @ ELSE @ + 1]
    /\ UNCHANGED main
    /\ UNCHANGED <<avars, nvars>>

PNext ==
    \/ MainTell
    \/ MainWait
    \/ MainWake
    \/ MainProbe
    \/ PingerReceive
    \/ PongerReceive
    \/ PingerHandle
    \/ PongerHandle

PPSpec == PInit /\ [][PNext]_vars

\* ---------------------------------------------------------------- fairness
\* The tokio runtime polls every task that is ready: the dispatch loops, the
\* handler futures and the tasks suspended in wait_for_stop make progress
\* whenever they can.  Callers are under no obligation to act.
FairSpec ==
    /\ Spec
    /\ WF_vars(Receive)
    /\ WF_vars(HandlerComplete)
    /\ WF_vars(Drain)
    /\ \A h \in Handles : WF_vars(WaitWake(h))

\* The part of it that concerns the tasks suspended in wait_for_stop: a
\* pending tx.closed() that can resolve is polled.
WakeFairSpec == Spec /\ WF_vars(\E h \in Handles : WaitWake(h))

PPFairSpec ==
    /\ PPSpec
    /\ WF_vars(MainTell)
    /\ WF_vars(MainWait)
    /\ WF_vars(MainWake)
    /\ WF_vars(PingerReceive)
    /\ WF_vars(PongerReceive)
    /\ WF_vars(PingerHandle)
    /\ WF_vars(PongerHandle)

\* ------------------------------------------------------------------ claims
IsPrefix(s, t) == Len(s) <= Len(t) /\ SubSeq(t, 1, Len(s)) = s

\* A step that is a tell call (by a caller or by the handler).
TellStep == nextMsg' = nextMsg + 1

\* The last handler result normalized to the Stopped directive.
StoppedReturned == lastResult = OkResult("Stopped")

\* The last handler result normalized to Empty or Ignore.
DrainReturned == lastResult \in {OkResult("Empty"), OkResult("Ignore")}

\* C1: the behavior is invoked on the messages in the order in which they were
\* enqueued: the sequence of handled messages is a prefix of the sequence of
\* enqueued messages, the message in flight is the last one handed over, and
\* an invocation begins only when every earlier one has completed.
C1_HandledInEnqueueOrder ==
    /\ [](/\ IsPrefix(handled, enq)
          /\ inflight > 0 => cur = <<handled[Len(handled)]>>)
    /\ [][handled' # handled =>
            /\ inflight = 0
            /\ handled' = Append(handled, enq[Len(handled) + 1])]_vars

\* Two messages have been handed to the behavior, the second is in flight
\* and a third waits in the mailbox, while callers hold two handles.
C1_Witness ==
    /\ Len(handled) >= 2
    /\ Cardinality(handles) = 2
    /\ queue # <<>>
    /\ inflight = 1

\* C2: at most one invocation of the behavior is in flight in every state.
C2_AtMostOneInFlight == inflight \in {0, 1}

\* An invocation is in flight, took the self handle and has sent a message to
\* its own actor, which waits in the mailbox with two caller handles alive.
C2_Witness ==
    /\ inflight = 1
    /\ thisHeld = 1
    /\ Cardinality(handles) = 2
    /\ Len(handled) >= 2
    /\ \E i \in 1..Len(queue) : queue[i] \in selfSent

\* C3: once a handler has returned a value that normalizes to Stopped, the
\* receive endpoint is dropped: every tell issued afterward fails, a
\* wait_for_stop begun afterward resolves at once, and every pending
\* wait_for_stop resolves with no further message being sent.
C3_StoppedClosesAtOnce ==
    /\ [](StoppedReturned => closed(rxOpen) /\ pc = "exited")
    /\ [][StoppedReturned /\ TellStep =>
            /\ Len(rejected') = Len(rejected) + 1
            /\ queue' = queue]_vars
    /\ [][\A h \in Handles :
            StoppedReturned /\ wait[h] = "idle" /\ wait'[h] # "idle"
                => wait'[h] = "resolved"]_vars
    /\ StoppedReturned ~> (\A h \in Handles : wait[h] # "pending")

\* Stopped was returned, a later tell failed and a wait_for_stop resolved
\* while messages could still have been sent.
C3_Witness ==
    /\ StoppedReturned
    /\ rejected # <<>>
    /\ \E h \in handles : wait[h] = "resolved"
    /\ nextMsg <= MaxMsgs

\* C4: a tell on an open mailbox appends the message and succeeds; a tell on a
\* mailbox whose receive endpoint was dropped leaves the mailbox unchanged and
\* returns ActorRefGone carrying exactly the message passed.
C4_TellNeverDropsSilently ==
    [][TellStep =>
         IF rxOpen
         THEN /\ queue' = Append(queue, nextMsg)
              /\ enq' = Append(enq, nextMsg)
              /\ rejected' = rejected
         ELSE /\ queue' = queue
              /\ enq' = enq
              /\ Len(rejected') = Len(rejected) + 1
              /\ SubSeq(rejected', 1, Len(rejected)) = rejected
              /\ rejected'[Len(rejected')].msg = nextMsg
              /\ rejected'[Len(rejected')].gone = <<nextMsg>>]_vars

\* Two caller handles have both told an actor that had stopped; both calls
\* failed and each got its own message back.
C4_Witness ==
    /\ StoppedReturned
    /\ \E i, j \in 1..Len(rejected) :
          /\ rejected[i].by \in Handles
          /\ rejected[j].by \in Handles
          /\ rejected[i].by # rejected[j].by
          /\ rejected[i].gone = <<rejected[i].msg>>
          /\ rejected[j].gone = <<rejected[j].msg>>
          /\ rejected[i].msg # rejected[j].msg

\* C5: after Empty or Ignore the receive endpoint stays open: while a caller
\* holds a handle, is_alive is true, no wait_for_stop has resolved and every
\* tell succeeds and enqueues.
C5_DrainingKeepsAccepting ==
    /\ [](DrainReturned /\ handles # {} =>
            /\ rxOpen
            /\ is_alive(rxOpen)
            /\ pc \in {"drain_try", "drain_recv"}
            /\ \A h \in Handles : wait[h] # "resolved")
    /\ [][DrainReturned /\ TellStep =>
            /\ rejected' = rejected
            /\ enq' = Append(enq, nextMsg)]_vars

\* The actor drains: a message sent after the directive was accepted and
\* discarded, is_alive answered true and a wait_for_stop is still pending.
C5_Witness ==
    /\ DrainReturned
    /\ Len(enq) >= Len(handled) + 2
    /\ queue = <<>>
    /\ alive = <<TRUE>>
    /\ \E h \in handles : wait[h] = "pending"

\* C6: abandonment terminates: once callers hold no handle and the behavior
\* has neither stopped, failed nor started draining, the dispatch loop
\* eventually exits (it can then only exit with NoActorRef).
C6_AbandonmentTerminates ==
    (handles = {} /\ ~DrainReturned)
        ~> (pc = "exited" \/ DrainReturned)

C8_ExitDropsReceiver ==
    /\ [](outcome # NoResult <=> pc = "exited")
    /\ [](pc = "exited" =>
            /\ outcome.kind \in {"Stopped", "NoActorRef", "Unhandled", "Crashed"}
            /\ is_alive(rxOpen) = FALSE
            /\ queue = <<>>)
    /\ [][pc = "exited" /\ TellStep =>
            /\ Len(rejected') = Len(rejected) + 1
            /\ enq' = enq]_vars
    /\ [][\A h \in Handles :
            pc = "exited" /\ wait[h] = "idle" /\ wait'[h] # "idle"
                => wait'[h] = "resolved"]_vars
    /\ (pc = "exited") ~> (\A h \in Handles : wait[h] # "pending")

\* The loop exited with a failure while messages were queued; afterwards
\* is_alive answered false, a tell failed and a wait_for_stop resolved.
C8_Witness ==
    /\ pc = "exited"
    /\ outcome.kind \in {"Unhandled", "Crashed"}
    /\ Len(enq) > Len(handled)
    /\ alive = <<FALSE>>
    /\ rejected # <<>>
    /\ \E h \in handles : wait[h] = "resolved"

\* The failure a return value reduces to, if any: the Err reached through
\* Ok and Some wrappers.
RECURSIVE FailureOf(_)
FailureOf(v) ==
    CASE v.tag = "Err" -> v.err
      [] v.tag \in {"Ok", "Some"} -> FailureOf(v.inner[1])
      [] OTHER -> <<>>

\* C9: a handler failure becomes Unhandled, carrying the ActorRefGone with the
\* rejected message, exactly when it is an ActorRefGone for the actor's own
\* message type; every other failure becomes Crashed carrying that failure.
C9_FailureClassification ==
    (nres # NoResult /\ FailureOf(nraw) # <<>>) =>
        LET e == FailureOf(nraw)[1]
        IN  /\ ~nres.ok
            /\ nres.kind \in {"Unhandled", "Crashed"}
            /\ nres.kind = "Unhandled" <=> (e.ty = "ActorRefGone" /\ e.of = nty)
            /\ nres.payload = <<e>>

\* An ActorRefGone for another message type than the actor's was normalized.
C9_Witness ==
    /\ nres.kind = "Crashed"
    /\ nres.payload[1].ty = "ActorRefGone"
    /\ nres.payload[1].of # nty
    /\ nraw.tag # "Err"

\* C10 as stated: the pong actor whose reply to a stopped pinger failed
\* terminates with Unhandled.
C10_PongUnhandled ==
    (ponger.pc = "exited" /\ stats.failed > 0) => ponger.outcome.kind = "Unhandled"

\* C10, amended: a ping/pong actor whose tell to its peer failed terminates
\* with Crashed carrying the ActorRefGone of the peer's message type; the
\* pong actor's failed reply is ActorRefGone<Pong>, not ActorRefGone<Ping>.
C10_PongCrashed ==
    /\ ponger.pc = "exited" =>
          /\ stats.failed > 0
          /\ ponger.outcome.kind = "Crashed"
          /\ ponger.outcome.payload[1].ty = "ActorRefGone"
          /\ ponger.outcome.payload[1].of = "Pong"
          /\ ponger.outcome.payload[1].msg = Pong(0)
    /\ pinger.pc = "exited" /\ pinger.outcome.kind # "Stopped" =>
          /\ pinger.outcome.kind = "Crashed"
          /\ pinger.outcome.payload[1].of = "Ping"
    /\ stats.failed > 0 => ponger.pc = "exited"

\* The ponger answered a Ping after the pinger had stopped and has exited.
C10_Witness ==
    /\ pinger.outcome.kind = "Stopped"
    /\ ponger.pc = "exited"
    /\ stats.failed = 1
    /\ main.pc = "probed"

\* The same return value with every bare unit written as Behaviors::Same and
\* every empty optional written as Behaviors::Stopped.
RECURSIVE Explicit(_)
Explicit(v) ==
    CASE v.tag = "Unit" -> Leaf("Behaviors", "Same")
      [] v.tag = "None" -> Leaf("Behaviors", "Stopped")
      [] v.tag \in {"Ok", "Some"} -> Wrap(v.tag, Explicit(v.inner[1]))
      [] OTHER -> v

\* C11: a handler returning unit is indistinguishable from one returning
\* Behaviors::Same, and one returning an empty optional from one returning
\* Behaviors::Stopped: the dispatch loop sees only the normalized result and
\* its reaction to it, and both are the same for the two return values.
C11_NormalizationEquivalence ==
    nres # NoResult =>
        /\ nres = into_result(Explicit(nraw), nty)
        /\ transition(nres) = transition(into_result(Explicit(nraw), nty))
        /\ nraw.tag = "Unit" => nres = OkResult("Same")
        /\ nraw.tag = "None" => nres = OkResult("Stopped")

\* A unit nested in a wrapper has been normalized to Same.
C11_Witness ==
    /\ nres = OkResult("Same")
    /\ nraw = Wrap("Ok", Leaf("Unit", "-"))
    /\ Explicit(nraw) # nraw

\* The last completed invocation ended in a failure.
FailureReturned == lastResult # NoResult /\ ~lastResult.ok

\* C12: `receive` never returns a success: once it has returned, its value is
\* one of the four kinds of Error; Stopped exactly when the last handler
\* result normalized to the Stopped directive, Unhandled or Crashed exactly
\* when it normalized to that failure (which is returned as it is), and
\* NoActorRef exactly when neither happened, the mailbox then having been
\* seen empty with no sender left.
C12_ExitKinds ==
    /\ (pc = "exited") = (outcome # NoResult)
    /\ outcome # NoResult =>
        /\ ~outcome.ok
        /\ outcome.kind \in {"NoActorRef", "Stopped", "Unhandled", "Crashed"}
        /\ (outcome.kind = "Stopped") = StoppedReturned
        /\ (outcome.kind \in {"Unhandled", "Crashed"}) = FailureReturned
        /\ FailureReturned => outcome = lastResult
        /\ (outcome.kind = "NoActorRef") = (~StoppedReturned /\ ~FailureReturned)
        /\ outcome.kind = "NoActorRef" => queue = <<>> /\ handles = {}

\* The loop has returned after a handler's Stopped directive that followed
\* an earlier invocation.
C12_Witness ==
    /\ pc = "exited"
    /\ outcome = ErrResult("Stopped", <<>>)
    /\ StoppedReturned
    /\ Len(handled) >= 2

\* A step in which a caller observed the actor: an is_alive call returned, or
\* a wait_for_stop call was polled or woken (a Drop also resets wait).
ObservationStep == alive' # alive \/ (wait' # wait /\ handles' = handles)

\* C13: is_alive and wait_for_stop only observe: such a step leaves the
\* mailbox, the loop's position and state, the context and the outcome as
\* they were, and a wait_for_stop is resolved only when the dispatch loop has
\* returned and dropped the receiver.
C13_ObservationIsPure ==
    /\ [][ObservationStep =>
            UNCHANGED <<queue, rxOpen, ctx, pc, cur, thisHeld, inflight, enq,
                        handled, lastResult, outcome, handles>>]_vars
    /\ [](\A h \in Handles :
            wait[h] = "resolved" => ~rxOpen /\ pc = "exited" /\ outcome # NoResult)

\* After a message was handled, the wait_for_stop of every handle has
\* resolved and is_alive has answered false.
C13_Witness ==
    /\ \A h \in Handles : wait[h] = "resolved"
    /\ alive = <<FALSE>>
    /\ Len(handled) >= 1

Range(s) == {s[i] : i \in 1..Len(s)}

NoDuplicates(s) == \A i, j \in 1..Len(s) : s[i] = s[j] => i = j

\* C14: the messages for which tell returned Ok (enq) are accounted for
\* exactly once each: passed to the behavior (once), or still queued, or in
\* the mailbox at the moment the receiver was dropped, or, only after an
\* Empty or Ignore directive, received and dropped by the drain loop.  A
\* rejected message is none of these.
C14_DeliveryAccounting ==
    /\ NoDuplicates(handled)
    /\ NoDuplicates(enq)
    /\ Range(enq) = Range(handled) \cup Range(queue) \cup Range(lost) \cup Range(drained)
    /\ Len(enq) = Len(handled) + Len(queue) + Len(lost) + Len(drained)
    /\ ~DrainReturned => drained = <<>>
    /\ lost # <<>> => ~rxOpen
    /\ \A i \in 1..Len(rejected) : rejected[i].msg \notin Range(enq)

\* One accepted message was handled and another was still queued when the
\* receiver was dropped.
C14_Witness ==
    /\ handled # <<>>
    /\ lost # <<>>
    /\ ~DrainReturned
    /\ Len(enq) = Len(handled) + Len(lost)

\* Draining is scheduled fairly: the task running the drain loop keeps
\* being polled.
DrainFairSpec == Spec /\ WF_vars(Drain)

\* C15: once a handler has returned Empty or Ignore the behavior is never
\* invoked again: no invocation is in flight and none starts, the loop is in
\* the drain (or has left it), every message that leaves the mailbox while
\* the loop drains is dropped unhandled, every queued message is eventually
\* dropped that way, and the drain after Empty does in every state what the
\* drain after Ignore does.
C15_DrainingNeverInvokes ==
    /\ [](DrainReturned =>
            /\ inflight = 0 /\ cur = <<>>
            /\ pc \in {"drain_try", "drain_recv", "exited"}
            /\ pc # "exited" => rxOpen
            /\ empty_behavor(queue, txCount, pc = "drain_recv")
                 = ignore_behavor(queue, txCount, pc = "drain_recv"))
    /\ [][DrainReturned =>
            /\ handled' = handled /\ inflight' = inflight /\ lastResult' = lastResult
            /\ (queue' # queue /\ enq' = enq /\ pc' # "exited") =>
                  /\ queue' = Tail(queue)
                  /\ drained' = Append(drained, Head(queue))]_vars
    /\ \A m \in 1..MaxMsgs :
          (DrainReturned /\ m \in Range(queue)) ~> (m \in Range(drained))

\* After Empty, messages that were queued or sent later have been dropped
\* by the drain, which is parked on an empty mailbox.
C15_Witness ==
    /\ lastResult = OkResult("Empty")
    /\ Len(drained) >= 2
    /\ pc = "drain_recv"
    /\ Len(handled) = 1

\* C16: an actor that drains (after Empty or Ignore) and whose callers have
\* dropped every handle, its mailbox emptied, eventually leaves the drain:
\* `receive` returns Error::NoActorRef.
C16_DrainTerminates ==
    (DrainReturned /\ handles = {} /\ queue = <<>>)
        ~> (pc = "exited" /\ outcome = ErrResult("NoActorRef", <<>>))

\* The last completed invocation returned the Same or the Unhandled directive.
KeepReturned == lastResult \in {OkResult("Same"), OkResult("Unhandled")}

\* C17: after a handler returned Same or Unhandled the actor is still
\* running: the receiver is open, `receive` has not returned and is fetching
\* or awaiting the next invocation; the message the result was about is gone
\* (neither queued again nor kept), a queued message can be fetched, and the
\* next message to leave the mailbox is passed to the behavior.
C17_SameAndUnhandledKeepRunning ==
    /\ [](KeepReturned =>
            /\ rxOpen /\ ctx /\ outcome = NoResult
            /\ pc \in {"try_recv", "recv", "handling"}
            /\ (pc = "handling") = (inflight = 1)
            /\ inflight = 0 =>
                 /\ cur = <<>>
                 /\ handled[Len(handled)] \notin Range(queue)
                 /\ queue # <<>> =>
                      receive_next(queue, txCount, pc = "recv").status = "some")
    /\ [][(KeepReturned /\ inflight = 0 /\ queue' # queue /\ enq' = enq) =>
            /\ queue' = Tail(queue)
            /\ handled' = Append(handled, Head(queue))
            /\ cur' = <<Head(queue)>>
            /\ inflight' = 1]_vars

\* The first invocation returned the Unhandled directive and the second
\* message is now being handled.
C17_Witness ==
    /\ lastResult = OkResult("Unhandled")
    /\ Len(handled) = 2
    /\ inflight = 1
    /\ cur = <<handled[2]>>

\* The last completed invocation ended the actor.
TerminalReturned == StoppedReturned \/ FailureReturned

\* C18: a Stopped directive or an Unhandled / Crashed failure is final: in
\* the step that completes such an invocation what is still queued is
\* discarded with the receiver and nothing is handled; from then on
\* `receive` has returned, no invocation is in flight and none ever starts,
\* neither for the message that failed nor for those discarded.
C18_TerminalIsFinal ==
    /\ [](TerminalReturned =>
            /\ pc = "exited" /\ ~rxOpen /\ ~ctx /\ outcome # NoResult
            /\ inflight = 0 /\ cur = <<>> /\ queue = <<>>
            /\ Range(lost) \cap Range(handled) = {})
    /\ [][(~TerminalReturned /\ TerminalReturned') =>
            lost' = queue /\ handled' = handled /\ inflight' = 0]_vars
    /\ [][TerminalReturned =>
            /\ handled' = handled /\ inflight' = inflight
            /\ lost' = lost /\ lastResult' = lastResult /\ outcome' = outcome]_vars

\* A handler crashed while further messages were queued behind the one it
\* was handling; they were discarded.
C18_Witness ==
    /\ FailureReturned
    /\ outcome.kind = "Crashed"
    /\ Len(lost) >= 2
    /\ Len(handled) = 1

\* What is left of a return value when its Ok and Some wrappers are removed.
RECURSIVE Core(_)
Core(v) == IF v.tag \in {"Ok", "Some"} THEN Core(v.inner[1]) ELSE v

\* The reference reduction: the directive, unit as Same, an empty optional
\* as Stopped, or the classified failure found under the wrappers.
Reference(v, T) ==
    LET c == Core(v)
    IN  CASE c.tag = "Behaviors" -> OkResult(c.d)
          [] c.tag = "Unit" -> OkResult("Same")
          [] c.tag = "None" -> OkResult("Stopped")
          [] c.tag = "Err" ->
               ErrResult(IF c.err[1].ty = "ActorRefGone" /\ c.err[1].of = T
                         THEN "Unhandled" ELSE "Crashed", c.err)

\* C19: into_result composes over nested return values: what MapErr yields
\* for any nesting of Option and Result around unit or a directive is the
\* reference reduction of the value, and the result for a present optional
\* or a success is the result for its content.
C19_NormalizationComposes ==
    nres # NoResult =>
        /\ nres = Reference(nraw, nty)
        /\ nraw.tag \in {"Ok", "Some"} => nres = Reference(nraw.inner[1], nty)
        /\ nres.ok = (FailureOf(nraw) = <<>>)

\* A fallible(optional(directive)) value was reduced through three steps.
C19_Witness ==
    /\ nraw = Wrap("Ok", Wrap("Some", Leaf("Behaviors", "Empty")))
    /\ nres = OkResult("Empty")

\* C20: State<S> does not outlive an invocation: every invocation starts
\* with the default value in its state container, whatever the invocation
\* before it left there, and no container exists between invocations.
C20_StateIsEphemeral ==
    /\ [](inflight = 1 => state = <<Default>>)
    /\ [](inflight = 0 => state = <<>>)
    /\ [][handled' # handled =>
            /\ state' = <<Default>>
            /\ (lastState # <<>> /\ lastState[1] # Default) => state' # lastState]_vars

\* The first invocation left a count of one in its state and the second
\* invocation was given the default again.
C20_Witness ==
    /\ Len(handled) = 2
    /\ inflight = 1
    /\ lastState = <<1>>
    /\ state = <<Default>>

\* C21: while `receive` has not returned (fetching, handling or draining),
\* its context is alive and holds an ActorRef of the actor, so at least one
\* sender of the mailbox is alive, neither try_recv nor recv can report the
\* mailbox disconnected, and `receive` never returns Error::NoActorRef.
C21_SelfHandle ==
    /\ pc # "exited" =>
        /\ ctx
        /\ txCount >= 1
        /\ receive_next(queue, txCount, FALSE).status # "none"
        /\ receive_next(queue, txCount, TRUE).status # "none"
    /\ outcome # ErrResult("NoActorRef", <<>>)
    /\ (pc = "exited") = ~ctx

\* Every caller has dropped its handle and the loop, parked on an empty
\* mailbox, still counts one sender: its own context.
C21_Witness ==
    /\ handles = {}
    /\ queue = <<>>
    /\ pc \in {"recv", "drain_recv"}
    /\ thisHeld = 0
    /\ txCount = 1

=============================================================================
